---- MODULE Spec2Model ----
(***************************************************************************)
(* Request lifecycle and cancellation propagation of the hedge-fund MCP    *)
(* bridge: the Cancellation Token (MCPCancellationToken), the Stream       *)
(* Decoder (HedgeFundAIClient.parseStreamResponse) and the Tool Dispatcher *)
(* (HedgeFundAITools).                                                     *)
(*                                                                         *)
(* The module holds four state machines over disjoint groups of           *)
(* variables.  Each specification drives one group and keeps the others    *)
(* at their initial value:                                                 *)
(*   SpecToken    a single token, its callbacks and the calls made on it   *)
(*   SpecDecoder  one run of parseStreamResponse over a chunked stream     *)
(*   SpecServer   the call-tool handler, the notification handler and the  *)
(*                backend as seen by the handlers                          *)
(*   SpecClient   HedgeFundAIClient.generateAnalysis: validation, token,   *)
(*                abort signal, POST, stream and cancellation notification *)
(* SpecConcurrent is the state machine of SpecClient with several          *)
(* generateAnalysis calls in flight on one HedgeFundAIClient.              *)
(***************************************************************************)
EXTENDS Integers, Sequences, FiniteSets, TLC

VARIABLES
  \* ---- SpecToken
  token,      \* the MCPCancellationToken under test: _isCancelled, _callbacks
  throwers,   \* the callbacks that throw when invoked
  trace,      \* the calls made on the token so far, each with the callbacks it ran
  \* ---- SpecDecoder
  content,      \* the bytes of the response body
  stream,       \* the bytes of the body not delivered yet
  gen,          \* the generator parseStreamResponse returned
  dtoken,       \* the cancellationToken passed to parseStreamResponse
  yielded,      \* the events the consumer has received, in order
  quotesSource, \* the engine's JSON.parse error message quotes the source text
  extCancelled, \* cancel() was called on the token from outside the decoder
  cuts,         \* where chunk boundaries fell: inside a character, the prefix, an object
  \* ---- SpecServer
  activeRequests, \* HedgeFundAITools.activeRequests: request id -> the call holding the token
  calls,          \* the tool calls: name, place in the handler, token, stream, outcome
  last,           \* the notification or signal the last step handled, if it was one
  process,        \* the server process: running or exited, and its transport to the caller
  \* ---- SpecClient
  streams,                  \* the generateAnalysis calls made on one HedgeFundAIClient
  activeCancellationTokens, \* HedgeFundAIClient.activeCancellationTokens: request id -> call
  cancelRequests            \* the cancelRequest calls made on the client, in call order

tokenVars == <<token, throwers, trace>>
decoderVars ==
  <<content, stream, gen, dtoken, yielded, quotesSource, extCancelled, cuts>>
serverVars == <<activeRequests, calls, last, process>>
clientVars == <<streams, activeCancellationTokens, cancelRequests>>
vars == <<tokenVars, decoderVars, serverVars, clientVars>>

(***************************************************************************)
(* Bounds                                                                  *)
(***************************************************************************)
MaxCallbacks == 3
MaxCancelCalls == 3
MaxFragments == 2
MaxCalls == 2
MaxStreams == 1
MaxConcurrent == 2
MaxCancelRequests == 1

(***************************************************************************)
(* Cancellation Token                                                      *)
(***************************************************************************)
\* new MCPCancellationToken(requestId): not cancelled, no callbacks.
\* requestId is "" when the token has no request id (undefined in the code).
MCPCancellationToken(requestId) ==
  [isCancelled |-> FALSE, callbacks |-> <<>>, requestId |-> requestId]

\* a loop over the callbacks that takes them from the last registered to the first
RECURSIVE forEachCallbackReversed(_, _)
forEachCallbackReversed(cbs, throwing) ==
  IF cbs = <<>> THEN [ran |-> <<>>, logged |-> 0, threw |-> FALSE]
  ELSE LET rest == forEachCallbackReversed(Tail(cbs), throwing)
       IN [ran    |-> rest.ran \o <<Head(cbs)>>,
           logged |-> rest.logged + (IF Head(cbs) \in throwing THEN 1 ELSE 0),
           threw  |-> FALSE]

\* a loop over the callbacks with no try/catch around the call: the first callback
\* that throws ends the loop and its error leaves cancel()
RECURSIVE forEachCallbackUncaught(_, _)
forEachCallbackUncaught(cbs, throwing) ==
  IF cbs = <<>> THEN [ran |-> <<>>, logged |-> 0, threw |-> FALSE]
  ELSE IF Head(cbs) \in throwing
  THEN [ran |-> <<Head(cbs)>>, logged |-> 0, threw |-> TRUE]
  ELSE LET rest == forEachCallbackUncaught(Tail(cbs), throwing)
       IN [ran |-> <<Head(cbs)>> \o rest.ran, logged |-> rest.logged, threw |-> rest.threw]

\* this._callbacks.forEach(callback => { try { callback() } catch { console.error } }):
\* every callback is invoked, in list order; an error is caught and logged.
RECURSIVE forEachCallback(_, _)
forEachCallback(cbs, throwing) ==
  IF cbs = <<>> THEN [ran |-> <<>>, logged |-> 0, threw |-> FALSE]
  ELSE LET rest == forEachCallback(Tail(cbs), throwing)
       IN [ran    |-> <<Head(cbs)>> \o rest.ran,
           logged |-> rest.logged + (IF Head(cbs) \in throwing THEN 1 ELSE 0),
           threw  |-> FALSE]

\* cancel() without the _isCancelled guard and without clearing the list.
cancelUnguarded(tok, throwing) ==
  LET r == forEachCallback(tok.callbacks, throwing)
  IN [tok |-> [tok EXCEPT !.isCancelled = TRUE],
      ran |-> r.ran, logged |-> r.logged, threw |-> r.threw]

\* cancel(): the new token, the callbacks invoked (in order), the errors logged,
\* and whether an error escaped to the caller.
cancel(tok, throwing) ==
  IF ~tok.isCancelled
  THEN LET r == forEachCallback(tok.callbacks, throwing)
       IN [tok |-> [tok EXCEPT !.isCancelled = TRUE, !.callbacks = <<>>],
           ran |-> r.ran, logged |-> r.logged, threw |-> r.threw]
  ELSE [tok |-> tok, ran |-> <<>>, logged |-> 0, threw |-> FALSE]

\* onCancellation() that invokes the callback of a cancelled token and stores it too.
onCancellationAlsoStores(tok, cb, throwing) ==
  IF tok.isCancelled
  THEN [tok |-> [tok EXCEPT !.callbacks = Append(@, cb)],
        ran |-> <<cb>>, threw |-> cb \in throwing]
  ELSE [tok |-> [tok EXCEPT !.callbacks = Append(@, cb)], ran |-> <<>>, threw |-> FALSE]

\* onCancellation(callback): a cancelled token invokes the callback at once, with no
\* try/catch around it; otherwise the callback is pushed on the list.
onCancellation(tok, cb, throwing) ==
  IF tok.isCancelled
  THEN [tok |-> tok, ran |-> <<cb>>, threw |-> cb \in throwing]
  ELSE [tok |-> [tok EXCEPT !.callbacks = Append(@, cb)], ran |-> <<>>, threw |-> FALSE]

(***************************************************************************)
(* SpecToken: calls of cancel() and onCancellation() on one token, in any  *)
(* order.  Every onCancellation call registers a callback of its own,      *)
(* numbered in call order.                                                 *)
(***************************************************************************)
CallbackIds == 1..MaxCallbacks

\* the positions of the trace that are cancel() calls / onCancellation() calls
CancelCallsAt == {i \in DOMAIN trace : trace[i].op = "cancel"}
RegistrationsAt == {i \in DOMAIN trace : trace[i].op = "onCancellation"}

\* how many times callback cb has been invoked so far
RECURSIVE CountIn(_, _)
CountIn(s, x) == IF s = <<>> THEN 0 ELSE (IF Head(s) = x THEN 1 ELSE 0) + CountIn(Tail(s), x)
RECURSIVE InvokedUpTo(_, _)
InvokedUpTo(n, cb) == IF n = 0 THEN 0 ELSE CountIn(trace[n].ran, cb) + InvokedUpTo(n - 1, cb)
Invoked(cb) == InvokedUpTo(Len(trace), cb)

\* callbacks registered before the first cancel() / at or after it
RegisteredBeforeCancel ==
  {trace[i].cb : i \in {j \in RegistrationsAt : \A k \in CancelCallsAt : j < k}}
RegisteredAfterCancel ==
  {trace[i].cb : i \in {j \in RegistrationsAt : \E k \in CancelCallsAt : k < j}}

TokenCancel ==
  /\ Cardinality(CancelCallsAt) < MaxCancelCalls
  /\ LET r == cancel(token, throwers)
     IN /\ token' = r.tok
        /\ trace' = Append(trace, [op |-> "cancel", cb |-> 0, ran |-> r.ran,
                                   logged |-> r.logged, threw |-> r.threw])
  /\ UNCHANGED <<throwers, decoderVars, serverVars, clientVars>>

TokenOnCancellation ==
  /\ Cardinality(RegistrationsAt) < MaxCallbacks
  /\ LET cb == Cardinality(RegistrationsAt) + 1
         r  == onCancellation(token, cb, throwers)
     IN /\ token' = r.tok
        /\ trace' = Append(trace, [op |-> "onCancellation", cb |-> cb, ran |-> r.ran,
                                   logged |-> 0, threw |-> r.threw])
  /\ UNCHANGED <<throwers, decoderVars, serverVars, clientVars>>

(***************************************************************************)
(* Stream Decoder: the text functions parseStreamResponse is built from    *)
(*                                                                         *)
(* Bytes and characters are strings.  An ASCII byte decodes to the         *)
(* character of the same name; the bytes "C3" "A9" are the UTF-8 encoding  *)
(* of the character "E9"; "FFFD" is the replacement character.  A JSON     *)
(* object is written "{", a tag, payload characters, "}": the tag stands   *)
(* for the members of the object ("P" a progress event, "R" a result       *)
(* event, "E" an error event, "C" the server's cancelled event).  "K" is   *)
(* text that is not JSON and holds the word "cancelled"; "N" is the bare   *)
(* literal NaN in the place of a member's value, "null" the JSON null.     *)
(***************************************************************************)
LF == "\n"
SP == " "
Tags == {"P", "R", "E", "C"}
PayloadChars == {"E9", "FFFD"}
TypeOf(tag) ==
  CASE tag = "P" -> "progress" [] tag = "R" -> "result" [] tag = "E" -> "error"
    [] tag = "C" -> "cancelled"

\* per-chunk decoding: decoder.decode(chunk) without { stream: true }, which flushes
\* an incomplete sequence at the end of the chunk as a replacement character.
RECURSIVE decodeFlushing(_, _)
decodeFlushing(pending, bytes) ==
  IF bytes = <<>>
  THEN [text |-> IF pending = <<>> THEN <<>> ELSE <<"FFFD">>, pending |-> <<>>]
  ELSE LET b == Head(bytes) IN
    IF pending # <<>>
    THEN IF b = "A9"
         THEN LET r == decodeFlushing(<<>>, Tail(bytes))
              IN [text |-> <<"E9">> \o r.text, pending |-> r.pending]
         ELSE LET r == decodeFlushing(<<>>, bytes)
              IN [text |-> <<"FFFD">> \o r.text, pending |-> r.pending]
    ELSE IF b = "C3" THEN decodeFlushing(<<"C3">>, Tail(bytes))
    ELSE LET r == decodeFlushing(<<>>, Tail(bytes))
         IN [text |-> <<(IF b = "A9" THEN "FFFD" ELSE b)>> \o r.text,
             pending |-> r.pending]

\* decoder.decode(chunk, { stream: true }) of a UTF-8 TextDecoder: `pending` holds the
\* bytes of an incomplete sequence kept from the chunks before; an incomplete sequence
\* at the end of the chunk is kept, and an ill-formed one becomes "FFFD".
RECURSIVE decode(_, _)
decode(pending, bytes) ==
  IF bytes = <<>> THEN [text |-> <<>>, pending |-> pending]
  ELSE LET b == Head(bytes) IN
    IF pending # <<>>
    THEN IF b = "A9"
         THEN LET r == decode(<<>>, Tail(bytes))
              IN [text |-> <<"E9">> \o r.text, pending |-> r.pending]
         ELSE LET r == decode(<<>>, bytes)
              IN [text |-> <<"FFFD">> \o r.text, pending |-> r.pending]
    ELSE IF b = "C3" THEN decode(<<"C3">>, Tail(bytes))
    ELSE LET r == decode(<<>>, Tail(bytes))
         IN [text |-> <<(IF b = "A9" THEN "FFFD" ELSE b)>> \o r.text,
             pending |-> r.pending]

\* buffer.split("\n"): the segments between newlines, at least one.
RECURSIVE split(_)
split(s) ==
  IF s = <<>> THEN << <<>> >>
  ELSE LET r == split(Tail(s)) IN
    IF Head(s) = LF THEN << <<>> >> \o r
    ELSE << <<Head(s)>> \o Head(r) >> \o Tail(r)

\* String.prototype.trim() over the white space of the alphabet
Blank(c) == c \in {SP, LF}
RECURSIVE trimStart(_)
trimStart(s) == IF s # <<>> /\ Blank(Head(s)) THEN trimStart(Tail(s)) ELSE s
RECURSIVE trimEnd(_)
trimEnd(s) ==
  IF s # <<>> /\ Blank(s[Len(s)]) THEN trimEnd(SubSeq(s, 1, Len(s) - 1)) ELSE s
trim(s) == trimEnd(trimStart(s))

\* a decoder that takes no notice of the Server-Sent-Events prefix
stripSsePrefixNever(line) == line

\* line.startsWith("data: ") ? line.substring(6) : line
SsePrefix == <<"d", "a", "t", "a", ":", SP>>
startsWith(s, prefix) == Len(s) >= Len(prefix) /\ SubSeq(s, 1, Len(prefix)) = prefix
stripSsePrefix(line) ==
  IF startsWith(line, SsePrefix) THEN SubSeq(line, Len(SsePrefix) + 1, Len(line)) ELSE line

\* JSON.parse(text): white space around the value is allowed; ok is FALSE where
\* JSON.parse throws a SyntaxError.
JSONparse(text) ==
  LET t == trim(text) IN
  IF /\ Len(t) >= 3
     /\ t[1] = "{" /\ t[Len(t)] = "}" /\ t[2] \in Tags
     /\ \A i \in 3..(Len(t) - 1) : t[i] \in PayloadChars
  THEN [ok |-> TRUE, data |-> [type |-> TypeOf(t[2]), payload |-> SubSeq(t, 3, Len(t) - 1)]]
  ELSE [ok |-> FALSE, data |-> [type |-> "", payload |-> <<>>]]

\* the messages of the errors raised in parseStreamResponse
ErrCancelled == "Request was cancelled"
ErrCancelledByServer == "Request was cancelled by server"
ErrSyntax == "Unexpected token in JSON"
ErrSyntaxQuoting == "Unexpected token, \"cancelled\" is not valid JSON"
ErrStream == "stream error"
\* the message of the SyntaxError of JSON.parse(text): an engine whose message quotes
\* the source text (quoting) repeats the word "cancelled" of the text, which the
\* text "K" and the members of a cancelled event ("C") hold
SyntaxErrorMessage(text, quoting) ==
  IF quoting /\ \E i \in DOMAIN text : text[i] \in {"K", "C"}
  THEN ErrSyntaxQuoting ELSE ErrSyntax
\* error.message.includes("cancelled")
includesCancelled(message) ==
  message \in {ErrCancelled, ErrCancelledByServer, ErrSyntaxQuoting}

(***************************************************************************)
(* Stream Decoder: parseStreamResponse as a generator                      *)
(*                                                                         *)
(* gen.pc is the place the generator is suspended at:                      *)
(*   "start"        created, body not entered (no next() yet)              *)
(*   "awaitChunk"   in `for await (const chunk of stream)`                 *)
(*   "yielded"      at the yield of the line loop; gen.lines are the lines *)
(*                  of the chunk still to process                          *)
(*   "yieldedFinal" at the yield of the remainder                          *)
(*   "returned"     completed normally;  "thrown"  raised gen.error        *)
(* Every operator below runs the body from one suspension to the next and  *)
(* gives the new generator, the new token, the events yielded by the step  *)
(* (none or one) and the callbacks a token.cancel() of the step ran.       *)
(***************************************************************************)
NewGenerator ==
  [pc |-> "start", buffer |-> <<>>, lines |-> <<>>, pending |-> <<>>, error |-> ""]
Finished(g) == g.pc \in {"returned", "thrown"}

\* lines 390-415 and 422-446: the try block around one message and its catch
parseMessage(text, tok, quoting) ==
  LET jsonData == stripSsePrefix(text) IN
  IF trim(jsonData) = <<>>
  THEN [kind |-> "skip", event |-> <<>>, error |-> "", tok |-> tok, ran |-> <<>>]
  ELSE LET parsed == JSONparse(jsonData) IN
    IF ~parsed.ok
    THEN LET message == SyntaxErrorMessage(jsonData, quoting) IN
         IF includesCancelled(message)
         THEN [kind |-> "throw", event |-> <<>>, error |-> message, tok |-> tok, ran |-> <<>>]
         ELSE [kind |-> "warn", event |-> <<>>, error |-> "", tok |-> tok, ran |-> <<>>]
    ELSE IF parsed.data.type = "cancelled"
    THEN LET c == IF tok.requestId # "" THEN cancel(tok, {})
                  ELSE [tok |-> tok, ran |-> <<>>, logged |-> 0, threw |-> FALSE]
         IN [kind |-> "throw", event |-> <<>>, error |-> ErrCancelledByServer,
             tok |-> c.tok, ran |-> c.ran]
    ELSE [kind |-> "yield", event |-> <<parsed.data>>, error |-> "", tok |-> tok,
          ran |-> <<>>]

\* lines 448-452: the outer catch, and the end of the generator by an error
outerCatch(g, tok, error, ran) ==
  [gen |-> [g EXCEPT !.pc = "thrown", !.lines = <<>>,
                     !.error = IF tok.isCancelled THEN ErrCancelled ELSE error],
   tok |-> tok, events |-> <<>>, ran |-> ran]

\* the line loop without the cancellation check before each line
RECURSIVE processLinesUnchecked(_, _, _, _)
processLinesUnchecked(g, lines, tok, quoting) ==
  IF lines = <<>>
  THEN [gen |-> [g EXCEPT !.pc = "awaitChunk", !.lines = <<>>],
        tok |-> tok, events |-> <<>>, ran |-> <<>>]
  ELSE IF trim(Head(lines)) = <<>>
  THEN processLinesUnchecked(g, Tail(lines), tok, quoting)
  ELSE LET m == parseMessage(Head(lines), tok, quoting) IN
    CASE m.kind = "yield" ->
           [gen |-> [g EXCEPT !.pc = "yielded", !.lines = Tail(lines)],
            tok |-> tok, events |-> m.event, ran |-> <<>>]
      [] m.kind = "throw" -> outerCatch(g, m.tok, m.error, m.ran)
      [] OTHER -> processLinesUnchecked(g, Tail(lines), tok, quoting)

\* lines 383-417: `for (const line of lines)`, from the first of `lines` to the next
\* yield, to the end of the lines (back to the chunk read) or to an error
RECURSIVE processLines(_, _, _, _)
processLines(g, lines, tok, quoting) ==
  IF lines = <<>>
  THEN [gen |-> [g EXCEPT !.pc = "awaitChunk", !.lines = <<>>],
        tok |-> tok, events |-> <<>>, ran |-> <<>>]
  ELSE IF trim(Head(lines)) = <<>>
  THEN processLines(g, Tail(lines), tok, quoting)
  ELSE IF tok.isCancelled
  THEN outerCatch(g, tok, ErrCancelled, <<>>)
  ELSE LET m == parseMessage(Head(lines), tok, quoting) IN
    CASE m.kind = "yield" ->
           [gen |-> [g EXCEPT !.pc = "yielded", !.lines = Tail(lines)],
            tok |-> tok, events |-> m.event, ran |-> <<>>]
      [] m.kind = "throw" -> outerCatch(g, m.tok, m.error, m.ran)
      [] OTHER -> processLines(g, Tail(lines), tok, quoting)

\* the chunk step with per-chunk decoding (decodeFlushing in place of decode)
onChunkFlushing(g, tok, chunk, quoting) ==
  IF tok.isCancelled
  THEN outerCatch(g, tok, ErrCancelled, <<>>)
  ELSE LET d     == decodeFlushing(g.pending, chunk)
           lines == split(g.buffer \o d.text)
           g1    == [g EXCEPT !.buffer = lines[Len(lines)], !.pending = d.pending]
       IN processLines(g1, SubSeq(lines, 1, Len(lines) - 1), tok, quoting)

\* lines 371-382: a chunk arrives at `for await`: the cancellation check, the
\* streaming decode, the split, the last segment kept in the buffer, then the lines
onChunk(g, tok, chunk, quoting) ==
  IF tok.isCancelled
  THEN outerCatch(g, tok, ErrCancelled, <<>>)
  ELSE LET d     == decode(g.pending, chunk)
           lines == split(g.buffer \o d.text)
           g1    == [g EXCEPT !.buffer = lines[Len(lines)], !.pending = d.pending]
       IN processLines(g1, SubSeq(lines, 1, Len(lines) - 1), tok, quoting)

\* lines 420-447: the stream ends; the remainder of the buffer is one last message
\* unless it is blank or the token is cancelled
onEnd(g, tok, quoting) ==
  IF trim(g.buffer) # <<>> /\ ~tok.isCancelled
  THEN LET m == parseMessage(g.buffer, tok, quoting) IN
    CASE m.kind = "yield" ->
           [gen |-> [g EXCEPT !.pc = "yieldedFinal"], tok |-> tok, events |-> m.event,
            ran |-> <<>>]
      [] m.kind = "throw" -> outerCatch(g, m.tok, m.error, m.ran)
      [] OTHER -> [gen |-> [g EXCEPT !.pc = "returned"], tok |-> tok, events |-> <<>>,
                   ran |-> <<>>]
  ELSE [gen |-> [g EXCEPT !.pc = "returned"], tok |-> tok, events |-> <<>>, ran |-> <<>>]

\* `for await` raises the error of the stream: the outer catch
onStreamError(g, tok) == outerCatch(g, tok, ErrStream, <<>>)

\* the consumer's next(): the first one enters the body and reads the stream; one
\* after a yield goes on with the lines left, or leaves the generator after the
\* remainder
resume(g, tok, quoting) ==
  CASE g.pc = "start" ->
         [gen |-> [g EXCEPT !.pc = "awaitChunk"], tok |-> tok, events |-> <<>>, ran |-> <<>>]
    [] g.pc = "yielded" -> processLines(g, g.lines, tok, quoting)
    [] g.pc = "yieldedFinal" ->
         [gen |-> [g EXCEPT !.pc = "returned"], tok |-> tok, events |-> <<>>, ran |-> <<>>]

(***************************************************************************)
(* SpecDecoder: one response body, delivered in chunks of any size, read   *)
(* by a consumer that pulls the events one by one; the token may be        *)
(* cancelled and the stream may fail at every suspension of the generator. *)
(***************************************************************************)
\* the pieces response bodies are made of
Fragments ==
  { <<"{", "P", "}", LF>>,
    <<"d", "a", "t", "a", ":", SP, "{", "R", "C3", "A9", "}", LF>>,
    <<"{", "C", "}", LF>>,
    <<"K", LF>>,
    <<"{", "P", "N", "}", LF>>,
    <<SP, LF>>,
    <<"{", "E", "}">>,
    <<"d", "a", "t", "a", ":", SP>> }

RECURSIVE Flatten(_)
Flatten(ss) == IF ss = <<>> THEN <<>> ELSE Head(ss) \o Flatten(Tail(ss))
Contents == UNION { {Flatten(fs) : fs \in [1..k -> Fragments]} : k \in 0..MaxFragments }

\* what the end of a chunk cut through, seen from the generator after the chunk:
\* the bytes of a character, the "data: " prefix, or the text of a JSON object
CutKinds(g, more) ==
  IF ~more \/ Finished(g) THEN {}
  ELSE (IF g.pending # <<>> THEN {"char"} ELSE {})
       \cup (IF g.buffer # <<>> /\ Len(g.buffer) < Len(SsePrefix)
                 /\ g.buffer = SubSeq(SsePrefix, 1, Len(g.buffer))
              THEN {"prefix"} ELSE {})
       \cup (IF \E i \in DOMAIN g.buffer : g.buffer[i] = "{" THEN {"json"} ELSE {})

\* the result of one step of the generator becomes the new state
DecoderStep(r) ==
  /\ gen' = r.gen
  /\ dtoken' = r.tok
  /\ yielded' = yielded \o r.events

\* the consumer calls next()
DecoderNext ==
  /\ gen.pc \in {"start", "yielded", "yieldedFinal"}
  /\ DecoderStep(resume(gen, dtoken, quotesSource))
  /\ UNCHANGED <<content, stream, quotesSource, extCancelled, cuts, tokenVars, serverVars, clientVars>>

\* the stream delivers its next n bytes as one chunk
DecoderChunk ==
  /\ gen.pc = "awaitChunk"
  /\ \E n \in 1..Len(stream) :
       /\ DecoderStep(onChunk(gen, dtoken, SubSeq(stream, 1, n), quotesSource))
       /\ stream' = SubSeq(stream, n + 1, Len(stream))
       /\ cuts' = cuts \cup CutKinds(gen', n < Len(stream))
  /\ UNCHANGED <<content, quotesSource, extCancelled, tokenVars, serverVars, clientVars>>

\* the stream ends after its last byte
DecoderEnd ==
  /\ gen.pc = "awaitChunk"
  /\ stream = <<>>
  /\ DecoderStep(onEnd(gen, dtoken, quotesSource))
  /\ UNCHANGED <<content, stream, quotesSource, extCancelled, cuts, tokenVars, serverVars, clientVars>>

\* the stream fails (connection lost, request aborted)
DecoderStreamError ==
  /\ gen.pc = "awaitChunk"
  /\ DecoderStep(onStreamError(gen, dtoken))
  /\ UNCHANGED <<content, stream, quotesSource, extCancelled, cuts, tokenVars, serverVars, clientVars>>

\* someone holding the token calls cancel() while the generator is suspended
DecoderCancel ==
  /\ ~extCancelled
  /\ dtoken' = cancel(dtoken, {}).tok
  /\ extCancelled' = TRUE
  /\ UNCHANGED <<content, stream, gen, yielded, quotesSource, cuts, tokenVars, serverVars, clientVars>>

\* the whole body in one chunk, read to the end by a consumer that never cancels:
\* the events yielded and the way the generator ends
RECURSIVE Drain(_, _, _)
Drain(r, evs, q) ==
  IF r.gen.pc \in {"yielded", "yieldedFinal"}
  THEN Drain(resume(r.gen, r.tok, q), evs \o r.events, q)
  ELSE IF r.gen.pc = "awaitChunk"
  THEN Drain(onEnd(r.gen, r.tok, q), evs \o r.events, q)
  ELSE [events |-> evs \o r.events, pc |-> r.gen.pc, error |-> r.gen.error]
OnePass(bytes, tok, q) ==
  LET g == resume(NewGenerator, tok, q).gen IN
  IF bytes = <<>> THEN Drain(onEnd(g, tok, q), <<>>, q)
  ELSE Drain(onChunk(g, tok, bytes, q), <<>>, q)

(***************************************************************************)
(* Tool Dispatcher: HedgeFundAITools, its call-tool handler, the tool      *)
(* handlers and the notifications/cancelled handler                        *)
(*                                                                         *)
(* calls[c].pc is the place call c is suspended at:                        *)
(*   "none"          not received yet                                      *)
(*   "awaitPost"     generateAnalysis awaits the POST /api/analysis/generate*)
(*   "awaitChunk"    the stream decoder awaits the next chunk              *)
(*   "awaitBackend"  a simple operation awaits its GET                     *)
(*   "done"          the call-tool handler has finished, with calls[c].outcome: *)
(*                   "result" (a tool result), "isError" (a tool result    *)
(*                   with isError), "CancelledError" or "Error" (thrown)   *)
(* calls[c].cancelledSent: the backend has sent a cancelled event on the   *)
(* stream of the call.                                                     *)
(* calls[c].handler is the tool handler the switch chose ("handleGet" for  *)
(* the handlers of the simple GET operations), "" for none.                *)
(* calls[c].requests counts the HTTP requests made to the backend for the  *)
(* call; calls[c].timedOut: its backend request ended by the timeout of    *)
(* the client.                                                             *)
(* The request id of call c is c: generateRequestId() gives every call an  *)
(* id of its own.  Request id 0 is a notification without a requestId.     *)
(* process.state is "running" from run() on and "exited" after             *)
(* process.exit, with process.status the exit status; process.connected    *)
(* is the stdio transport to the MCP caller being open.                    *)
(***************************************************************************)
CallIds == 1..MaxCalls
ToolNames ==
  {"generate_analysis", "get_health", "get_system_status", "get_available_analysts",
   "search_tickers", "get_portfolio_status", "no_such_tool"}
\* the switch of the call-tool handler (lines 227-250): the tool handler of a name,
\* "" for a name that falls to the default case
toolHandler(name) ==
  CASE name = "generate_analysis" -> "handleGenerateAnalysis"
    [] name = "get_health" -> "handleGetHealth"
    [] name = "get_system_status" -> "handleGetSystemStatus"
    [] name = "get_available_analysts" -> "handleGetAvailableAnalysts"
    [] name = "search_tickers" -> "handleSearchTickers"
    [] OTHER -> ""
\* the tools the list-tools handler returns (lines 116-212)
ListedTools ==
  {"generate_analysis", "get_health", "get_system_status", "get_available_analysts",
   "search_tickers"}
\* the tools the README gives as the tool surface of the server
ToolSurface ==
  {"generate_analysis", "get_health", "get_system_status", "get_portfolio_status",
   "get_available_analysts", "search_tickers"}
\* the tool handlers that await one GET of the backend and validate its body
GetHandlers == {"handleGetHealth", "handleGetSystemStatus", "handleSearchTickers"}
\* the three of them are one text but for the GET and the schema: a call keeps
\* "handleGet" for any of them
handlerShape(h) == IF h \in GetHandlers THEN "handleGet" ELSE h
\* the tickers argument of generate_analysis: absent, an empty list, a list of symbols
TickerArgs == {"undefined", "empty", "symbols"}
\* AnalysisRequestSchema.parse(request): tickers is z.array(z.string())
AnalysisRequestSchemaAccepts(tickers) == tickers \in {"empty", "symbols"}

\* the bodies the backend streams back, as sequences of chunks
ChunkProgress == <<"{", "P", "}", LF>>
ChunkResultTail == <<"{", "R", "}">>
ChunkCancelled == <<"{", "C", "}", LF>>
Bodies ==
  { <<>>, <<ChunkProgress, ChunkResultTail>>, <<ChunkCancelled>> }
\* what a GET of the backend ends with: a body of the expected shape, a body the
\* response schema rejects, a connection failure or non-success status
Replies == {"ok", "malformed", "failure", "timeout"}
ErrHttp == "Request failed"
\* axios' error when the timeout of the instance (300000 ms) elapses
ErrTimeout == "timeout of 300000ms exceeded"
ErrSchema == "Response validation failed"
ErrValidation == "Request validation failed"

\* `last` after a step that is neither a notification nor a signal
NoNotification == [kind |-> "other", requestId |-> 0, hit |-> FALSE]

NoCall ==
  [handler |-> "", pc |-> "none", token |-> MCPCancellationToken(""),
   aborted |-> FALSE, gen |-> NewGenerator, body |-> <<>>, cancelledSent |-> FALSE,
   results |-> <<>>, outcome |-> "", message |-> <<>>, requests |-> 0,
   timedOut |-> FALSE]

\* the process after run(): the transport connected, the signal handlers installed
Running == [state |-> "running", connected |-> TRUE, status |-> 0]

\* the catch of a tool handler that turns every error into an isError result
toolCatchUnchecked(tok, message) == [outcome |-> "isError", message |-> <<message>>]

\* the catch of a tool handler that throws the error it caught
toolCatchRethrows(tok, message) ==
  IF tok.isCancelled
  THEN [outcome |-> "CancelledError", message |-> <<ErrCancelled>>]
  ELSE [outcome |-> "Error", message |-> <<message>>]

\* the catch of a tool handler (lines 303-319, 337-350, ...): CancelledError when the
\* token is cancelled, else a tool result with isError and the message of the error
toolCatch(tok, message) ==
  IF tok.isCancelled
  THEN [outcome |-> "CancelledError", message |-> <<ErrCancelled>>]
  ELSE [outcome |-> "isError", message |-> <<message>>]

\* a call-tool handler whose catch throws an error of its own in place of the one caught
handlerCatchGeneric(tok, thrown) ==
  IF tok.isCancelled
  THEN [outcome |-> "CancelledError", message |-> <<ErrCancelled>>]
  ELSE [outcome |-> "Error", message |-> <<"Tool call failed">>]

\* the catch of the call-tool handler (lines 253-257) around an error a tool handler
\* or the switch threw
handlerCatch(tok, thrown) ==
  IF tok.isCancelled
  THEN [outcome |-> "CancelledError", message |-> <<ErrCancelled>>]
  ELSE thrown

\* what the call-tool handler ends with, given what the tool handler ended with
handlerOutcome(tok, o) ==
  IF o.outcome \in {"CancelledError", "Error"} THEN handlerCatch(tok, o) ELSE o

\* this.activeRequests.delete(requestId)
deleteRequest(reg, requestId) ==
  [r \in (DOMAIN reg) \ {requestId} |-> reg[r]]

\* a call-tool handler that forgets the request of a call that did not succeed
finallyDeleteOnSuccess(reg, requestId, outcome) ==
  IF outcome = "result" THEN deleteRequest(reg, requestId) ELSE reg

\* the finally of the call-tool handler (lines 258-261)
finallyDelete(reg, requestId, outcome) == deleteRequest(reg, requestId)

\* the callbacks a token.cancel() ran: "abort" is the callback generateAnalysis
\* registers (lines 278-284), which aborts the HTTP request
Aborts(ran) == \E i \in DOMAIN ran : ran[i] = "abort"

\* the catch of generateAnalysis (client.ts, lines 300-305): the error of the POST
\* becomes "Request was cancelled" when the signal is aborted
postCatch(aborted, message) == IF aborted THEN ErrCancelled ELSE message

\* lines 284-319: `for await (const response of analysisGenerator)` from a step r of
\* the generator to the next chunk read or to the end of handleGenerateAnalysis
RECURSIVE consume(_, _, _)
consume(r, results, quoting) ==
  CASE r.gen.pc \in {"yielded", "yieldedFinal"} ->
         IF r.tok.isCancelled
         THEN [pc |-> "done", gen |-> [r.gen EXCEPT !.pc = "returned", !.lines = <<>>],
               tok |-> r.tok, results |-> results, ran |-> r.ran,
               end |-> toolCatch(r.tok, ErrCancelled)]
         ELSE LET n == resume(r.gen, r.tok, quoting)
              IN consume([n EXCEPT !.ran = r.ran \o n.ran], results \o r.events, quoting)
    [] r.gen.pc = "awaitChunk" ->
         [pc |-> "awaitChunk", gen |-> r.gen, tok |-> r.tok, results |-> results,
          ran |-> r.ran, end |-> [outcome |-> "", message |-> <<>>]]
    [] r.gen.pc = "returned" ->
         [pc |-> "done", gen |-> r.gen, tok |-> r.tok, results |-> results,
          ran |-> r.ran, end |-> [outcome |-> "result", message |-> <<>>]]
    [] r.gen.pc = "thrown" ->
         [pc |-> "done", gen |-> r.gen, tok |-> r.tok, results |-> results,
          ran |-> r.ran, end |-> toolCatch(r.tok, r.gen.error)]

\* a notifications/cancelled handler that cancels the token and keeps the entry
cancelledNotificationKeepsEntry(reg, cs, requestId) ==
  IF requestId # 0 /\ requestId \in DOMAIN reg
  THEN LET c == reg[requestId]
           k == cancel(cs[c].token, {})
       IN [reg |-> reg,
           calls |-> [cs EXCEPT ![c].token = k.tok,
                                ![c].aborted = cs[c].aborted \/ Aborts(k.ran)],
           hit |-> TRUE]
  ELSE [reg |-> reg, calls |-> cs, hit |-> FALSE]

\* the notifications/cancelled handler (lines 96-107): the registry and the calls
\* after it, and whether the request id was found
cancelledNotification(reg, cs, requestId) ==
  IF requestId # 0 /\ requestId \in DOMAIN reg
  THEN LET c == reg[requestId]
           k == cancel(cs[c].token, {})
       IN [reg |-> deleteRequest(reg, requestId),
           calls |-> [cs EXCEPT ![c].token = k.tok,
                                ![c].aborted = cs[c].aborted \/ Aborts(k.ran)],
           hit |-> TRUE]
  ELSE [reg |-> reg, calls |-> cs, hit |-> FALSE]

\* call c ends: the outcome of the tool handler goes through the catch of the
\* call-tool handler, and its finally removes the request
Finish(c, call, o) ==
  LET h == handlerOutcome(call.token, o) IN
  /\ calls' = [calls EXCEPT ![c] = [call EXCEPT !.pc = "done", !.outcome = h.outcome,
                                                !.message = h.message]]
  /\ activeRequests' = finallyDelete(activeRequests, c, h.outcome)

\* the call-tool handler receives a call (lines 216-250) and runs to its first await
CallTool ==
  \E c \in CallIds, name \in ToolNames, tickers \in TickerArgs :
    /\ process.state = "running" /\ process.connected
    /\ calls[c].pc = "none"
    /\ \A d \in CallIds : d < c => calls[d].pc # "none"
    /\ name # "generate_analysis" => tickers = "undefined"
    /\ last' = NoNotification
    /\ LET tok  == MCPCancellationToken("")
           h    == toolHandler(name)
           call == [NoCall EXCEPT !.handler = handlerShape(h), !.token = tok]
       IN CASE h = "" ->
                 Finish(c, call, [outcome |-> "Error",
                                  message |-> <<"Unknown tool: ", name>>])
            [] h = "handleGetAvailableAnalysts" ->
                 Finish(c, call, [outcome |-> "result", message |-> <<>>])
            [] h \in GetHandlers ->
                 /\ calls' = [calls EXCEPT ![c] = [call EXCEPT !.pc = "awaitBackend",
                                                               !.requests = 1]]
                 /\ activeRequests' = (c :> c) @@ activeRequests
            [] h = "handleGenerateAnalysis" ->
                 IF ~AnalysisRequestSchemaAccepts(tickers)
                 THEN Finish(c, call, toolCatch(tok, ErrValidation))
                 ELSE LET reg == onCancellation(tok, "abort", {}) IN
                      /\ calls' = [calls EXCEPT ![c] =
                                     [call EXCEPT !.pc = "awaitPost", !.token = reg.tok,
                                                  !.requests = 1]]
                      /\ activeRequests' = (c :> c) @@ activeRequests
    /\ UNCHANGED <<process, tokenVars, decoderVars, clientVars>>

\* the POST of generate_analysis is answered with a success status and a stream;
\* handleGenerateAnalysis starts to read it
PostResponds ==
  \E c \in CallIds, body \in Bodies :
    /\ process.state = "running"
    /\ calls[c].pc = "awaitPost"
    /\ ~calls[c].aborted
    /\ LET r == consume(resume(NewGenerator, calls[c].token, FALSE), <<>>, FALSE)
       IN calls' = [calls EXCEPT ![c].pc = r.pc, ![c].gen = r.gen, ![c].body = body]
    /\ last' = NoNotification
    /\ UNCHANGED <<activeRequests, process, tokenVars, decoderVars, clientVars>>

\* the POST fails: a connection failure or non-success status, the timeout of the
\* client, or the rejection of an aborted request (generateAnalysis, lines 300-305)
PostFails ==
  \E c \in CallIds, message \in {ErrHttp, ErrTimeout} :
    /\ process.state = "running"
    /\ calls[c].pc = "awaitPost"
    /\ calls[c].aborted => message = ErrHttp
    /\ Finish(c, [calls[c] EXCEPT !.timedOut = (message = ErrTimeout)],
              toolCatch(calls[c].token, postCatch(calls[c].aborted, message)))
    /\ last' = NoNotification
    /\ UNCHANGED <<process, tokenVars, decoderVars, clientVars>>

\* a step r of the stream decoder of call c, then the consumer loop
StreamStep(c, r, body, sent) ==
  LET k    == consume(r, calls[c].results, FALSE)
      call == [calls[c] EXCEPT !.gen = k.gen, !.token = k.tok, !.results = k.results,
                               !.body = body, !.pc = k.pc,
                               !.cancelledSent = calls[c].cancelledSent \/ sent,
                               !.aborted = calls[c].aborted \/ Aborts(k.ran)]
  IN IF k.pc = "done" THEN Finish(c, call, k.end)
     ELSE /\ calls' = [calls EXCEPT ![c] = call]
          /\ UNCHANGED activeRequests

\* the stream of call c delivers its next chunk
StreamChunk ==
  \E c \in CallIds :
    /\ process.state = "running"
    /\ calls[c].pc = "awaitChunk"
    /\ ~calls[c].aborted
    /\ calls[c].body # <<>>
    /\ StreamStep(c, onChunk(calls[c].gen, calls[c].token, Head(calls[c].body), FALSE),
                  Tail(calls[c].body), Head(calls[c].body) = ChunkCancelled)
    /\ last' = NoNotification
    /\ UNCHANGED <<process, tokenVars, decoderVars, clientVars>>

\* the stream of call c ends
StreamEnd ==
  \E c \in CallIds :
    /\ process.state = "running"
    /\ calls[c].pc = "awaitChunk"
    /\ ~calls[c].aborted
    /\ calls[c].body = <<>>
    /\ StreamStep(c, onEnd(calls[c].gen, calls[c].token, FALSE), <<>>, FALSE)
    /\ last' = NoNotification
    /\ UNCHANGED <<process, tokenVars, decoderVars, clientVars>>

\* the stream of call c fails: the connection is lost, or the request was aborted
StreamError ==
  \E c \in CallIds :
    /\ process.state = "running"
    /\ calls[c].pc = "awaitChunk"
    /\ StreamStep(c, onStreamError(calls[c].gen, calls[c].token), calls[c].body, FALSE)
    /\ last' = NoNotification
    /\ UNCHANGED <<process, tokenVars, decoderVars, clientVars>>

\* the GET of a simple operation ends (handleGetHealth and the like, lines 327-350)
BackendReplies ==
  \E c \in CallIds, reply \in Replies :
    /\ process.state = "running"
    /\ calls[c].pc = "awaitBackend"
    /\ Finish(c, [calls[c] EXCEPT !.timedOut = (reply = "timeout")],
              CASE reply = "ok" -> [outcome |-> "result", message |-> <<>>]
                [] reply = "malformed" -> toolCatch(calls[c].token, ErrSchema)
                [] reply = "failure" -> toolCatch(calls[c].token, ErrHttp)
                [] reply = "timeout" -> toolCatch(calls[c].token, ErrTimeout))
    /\ last' = NoNotification
    /\ UNCHANGED <<process, tokenVars, decoderVars, clientVars>>

\* a notifications/cancelled arrives, with any request id or none
CancelledNotification ==
  \E requestId \in 0..MaxCalls :
    LET n == cancelledNotification(activeRequests, calls, requestId) IN
    /\ process.state = "running" /\ process.connected
    /\ activeRequests' = n.reg
    /\ calls' = n.calls
    /\ last' = [kind |-> "notification", requestId |-> requestId, hit |-> n.hit]
    /\ UNCHANGED <<process, tokenVars, decoderVars, clientVars>>

\* a cleanup() that empties the registry and cancels nothing
cleanupClearsOnly(reg, cs) == [reg |-> <<>>, calls |-> cs]

\* cleanup() (lines 471-478): cancel() on every token of activeRequests, which runs
\* its callbacks, then activeRequests.clear()
cleanup(reg, cs) ==
  [reg |-> <<>>,
   calls |-> [c \in DOMAIN cs |->
                IF \E r \in DOMAIN reg : reg[r] = c
                THEN [cs[c] EXCEPT !.token = cancel(cs[c].token, {}).tok,
                                   !.aborted = @ \/ Aborts(cancel(cs[c].token, {}).ran)]
                ELSE cs[c]]]

\* a server that runs cleanup() when its transport closes
onTransportCloseCleans(reg, cs) == cleanup(reg, cs)

\* the transport closes: run() (lines 449-469) connects the transport and installs
\* handlers for SIGINT and SIGTERM only; nothing of HedgeFundAITools runs on a close
onTransportClose(reg, cs) == [reg |-> reg, calls |-> cs]

\* the MCP caller disconnects (its end of stdio closes) without notification or signal
TransportClose ==
  /\ process.state = "running" /\ process.connected
  /\ LET k == onTransportClose(activeRequests, calls)
     IN calls' = k.calls /\ activeRequests' = k.reg
  /\ process' = [process EXCEPT !.connected = FALSE]
  /\ last' = NoNotification
  /\ UNCHANGED <<tokenVars, decoderVars, clientVars>>

\* SIGINT or SIGTERM (lines 458-468): cleanup(), then process.exit(0)
Signal ==
  \E signal \in {"SIGINT", "SIGTERM"} :
    /\ process.state = "running"
    /\ LET k == cleanup(activeRequests, calls)
       IN calls' = k.calls /\ activeRequests' = k.reg
    /\ process' = [process EXCEPT !.state = "exited", !.status = 0]
    /\ last' = [kind |-> "signal", requestId |-> 0, hit |-> FALSE]
    /\ UNCHANGED <<tokenVars, decoderVars, clientVars>>

(***************************************************************************)
(* Backend Client: HedgeFundAIClient.generateAnalysis, the token it binds  *)
(* to the abort signal of the POST, the stream it returns, the             *)
(* notifications/cancelled POST of the cancellation callback and           *)
(* cancelRequest                                                           *)
(*                                                                         *)
(* streams[c].pc is the place call c of generateAnalysis is at:            *)
(*   "none"       not called yet                                           *)
(*   "awaitPost"  awaits the POST /api/analysis/generate                   *)
(*   "stream"     has returned the generator streams[c].gen to its caller  *)
(*   "done"       rejected (validation, POST failure) or generator ended;  *)
(*                streams[c].error is the message of the error, "" if none *)
(* streams[c].tickers is the tickers of the request while generateAnalysis *)
(* holds it: up to the end of the POST, or as rejected by the validation.  *)
(* streams[c].posts counts the calls of this.client.post for the analysis, *)
(* streams[c].notified the notifications/cancelled POSTs the callback of   *)
(* the call sent and streams[c].notesInFlight those not settled yet.       *)
(* streams[c].preCancelled: the token of the call was cancelled before     *)
(* generateAnalysis was called with it.                                    *)
(* cancelRequests[i].state is "awaitPost" while cancelRequest awaits the   *)
(* POST of its notification, then "resolved" or "rejected";                *)
(* cancelRequests[i].call is the call whose token was under the request id *)
(* when cancelRequest was called (0: none), cancelRequests[i].events the   *)
(* events that call had yielded when cancelRequest settled.                *)
(***************************************************************************)
StreamIds == DOMAIN streams
\* the cancellationToken argument: none (the client creates a token), a token the
\* caller got from createCancellationToken() or from createCancellationToken(id) with
\* an id of its own, or a token of another implementation of CancellationToken that
\* has no requestId (the Tool Dispatcher's)
TokenArgs == {"undefined", "created", "own", "foreign"}
\* `req_${Date.now()}_${Math.random()...}`: an id of its own for every token
requestIdOf(c) == "req_" \o ToString(c)
\* the request id callers pass to createCancellationToken
OwnId == "own"
\* const id = requestId || `req_...` (line 248)
tokenIdOf(c, tokenArg) == IF tokenArg = "own" THEN OwnId ELSE requestIdOf(c)
NoStream ==
  [pc |-> "none", tickers |-> "", tokenArg |-> "", token |-> MCPCancellationToken(""),
   aborted |-> FALSE, posts |-> 0, gen |-> NewGenerator, body |-> <<>>, events |-> 0,
   notified |-> 0, notesInFlight |-> 0, error |-> "", preCancelled |-> FALSE]

\* createCancellationToken(requestId) (lines 247-252): a token with the id, set in
\* activeCancellationTokens under it
createCancellationToken(map, requestId, c) ==
  [token |-> MCPCancellationToken(requestId), map |-> (requestId :> c) @@ map]

\* this.activeCancellationTokens.delete(requestId)
deleteToken(map, requestId) == [r \in (DOMAIN map) \ {requestId} |-> map[r]]

\* a callback that sends the notification and leaves the POST running
abortCallbackNotifiesOnly(call) ==
  LET sends == call.token.requestId # "" IN
  [call EXCEPT !.notified = @ + (IF sends THEN 1 ELSE 0),
               !.notesInFlight = @ + (IF sends THEN 1 ELSE 0)]

\* the callback generateAnalysis registers (lines 278-284): abort the POST, and send
\* the notification when the token has a request id; the promise of the notification
\* is left to .catch(console.error)
abortCallback(call) ==
  LET sends == call.token.requestId # "" IN
  [call EXCEPT !.aborted = TRUE,
               !.notified = @ + (IF sends THEN 1 ELSE 0),
               !.notesInFlight = @ + (IF sends THEN 1 ELSE 0)]

\* the effects on a call of the callbacks a cancel() or onCancellation() ran
runCallbacks(call, ran) == IF Aborts(ran) THEN abortCallback(call) ELSE call

\* generateAnalysis(request, cancellationToken) up to its await (lines 264-298):
\* validation, the token, the abort controller, the callback, the POST
generateAnalysis(map, c, tickers, tokenArg, given) ==
  LET base == [NoStream EXCEPT !.tickers = tickers, !.tokenArg = tokenArg,
                               !.token = given, !.preCancelled = given.isCancelled] IN
  IF ~AnalysisRequestSchemaAccepts(tickers)
  THEN [stream |-> [base EXCEPT !.pc = "done", !.error = ErrValidation], map |-> map]
  ELSE LET made == IF tokenArg = "undefined"
                   THEN createCancellationToken(map, requestIdOf(c), c)
                   ELSE [token |-> given, map |-> map]
           reg  == onCancellation(made.token, "abort", {})
           s    == runCallbacks([base EXCEPT !.token = reg.tok], reg.ran)
       IN [stream |-> [s EXCEPT !.pc = "awaitPost", !.posts = 1], map |-> made.map]

\* the events and callbacks of a step r of the generator, followed by those of the
\* step n it is resumed with
followedBy(r, n) == [n EXCEPT !.events = r.events \o n.events, !.ran = r.ran \o n.ran]

\* `for await (const event of generator)` of the caller: from a step r of the
\* generator to the next chunk read or to the end of the generator
RECURSIVE pull(_)
pull(r) ==
  IF r.gen.pc \in {"yielded", "yieldedFinal"}
  THEN pull(followedBy(r, resume(r.gen, r.tok, FALSE)))
  ELSE r

\* the steps r of the generator of a call, up to its next chunk read or its end, become
\* the new state of the call; the finally of parseStreamResponse (lines 453-458)
\* deletes the token of a generator that ended
afterPull(map, call, r, body) ==
  LET fin == Finished(r.gen)
      s   == runCallbacks([call EXCEPT !.gen = r.gen, !.token = r.tok, !.body = body,
                                       !.events = @ + Len(r.events)], r.ran)
  IN [stream |-> [s EXCEPT !.pc = IF fin THEN "done" ELSE "stream",
                           !.error = IF fin THEN r.gen.error ELSE ""],
      map |-> IF fin /\ r.tok.requestId # "" THEN deleteToken(map, r.tok.requestId)
              ELSE map]
streamStep(map, call, r0, body) == afterPull(map, call, pull(r0), body)

\* sendCancelledNotification after its POST succeeded (lines 231-237): the token found
\* under the request id is cancelled, which runs its callbacks, and its entry deleted
afterNotification(map, ss, requestId) ==
  IF requestId \in DOMAIN map
  THEN [streams |-> [ss EXCEPT ![map[requestId]] =
                       runCallbacks([ss[map[requestId]] EXCEPT
                                       !.token = cancel(ss[map[requestId]].token, {}).tok],
                                    cancel(ss[map[requestId]].token, {}).ran)],
        map |-> deleteToken(map, requestId)]
  ELSE [streams |-> ss, map |-> map]

ClientStep(c, k) ==
  /\ streams' = [streams EXCEPT ![c] = k.stream]
  /\ activeCancellationTokens' = k.map

\* a caller calls generateAnalysis; a caller that passes a token has made it before,
\* and may have cancelled it before the call
ClientGenerateAnalysis ==
  \E c \in StreamIds, tickers \in TickerArgs, tokenArg \in TokenArgs,
     cancelledBefore \in BOOLEAN :
    /\ streams[c].pc = "none"
    /\ \A d \in StreamIds : d < c => streams[d].pc # "none"
    /\ tokenArg = "undefined" => ~cancelledBefore
    /\ LET made  == IF tokenArg \in {"created", "own"}
                    THEN createCancellationToken(activeCancellationTokens,
                                                 tokenIdOf(c, tokenArg), c)
                    ELSE [token |-> MCPCancellationToken(""),
                          map |-> activeCancellationTokens]
           given == IF cancelledBefore THEN cancel(made.token, {}).tok ELSE made.token
       IN ClientStep(c, generateAnalysis(made.map, c, tickers, tokenArg, given))
    /\ UNCHANGED <<cancelRequests, tokenVars, decoderVars, serverVars>>

\* the POST is answered with a success status and a stream: generateAnalysis returns
\* the generator
ClientPostResponds ==
  \E c \in StreamIds, body \in Bodies :
    /\ streams[c].pc = "awaitPost"
    /\ ~streams[c].aborted
    /\ streams' = [streams EXCEPT ![c].pc = "stream", ![c].body = body,
                                  ![c].tickers = ""]
    /\ UNCHANGED <<activeCancellationTokens, cancelRequests, tokenVars, decoderVars,
                   serverVars>>

\* the POST fails: connection failure or non-success status, the timeout, or the
\* rejection of an aborted request
ClientPostFails ==
  \E c \in StreamIds, message \in {ErrHttp, ErrTimeout} :
    /\ streams[c].pc = "awaitPost"
    /\ streams[c].aborted => message = ErrHttp
    /\ streams' = [streams EXCEPT ![c].pc = "done", ![c].tickers = "",
                                  ![c].error = postCatch(streams[c].aborted, message)]
    /\ UNCHANGED <<activeCancellationTokens, cancelRequests, tokenVars, decoderVars,
                   serverVars>>

\* the caller starts to iterate the generator
ClientIterate ==
  \E c \in StreamIds :
    /\ streams[c].pc = "stream"
    /\ streams[c].gen.pc = "start"
    /\ ClientStep(c, streamStep(activeCancellationTokens, streams[c],
                                resume(streams[c].gen, streams[c].token, FALSE),
                                streams[c].body))
    /\ UNCHANGED <<cancelRequests, tokenVars, decoderVars, serverVars>>

\* the response body delivers its next chunk
ClientChunk ==
  \E c \in StreamIds :
    /\ streams[c].pc = "stream"
    /\ streams[c].gen.pc = "awaitChunk"
    /\ ~streams[c].aborted
    /\ streams[c].body # <<>>
    /\ ClientStep(c, streamStep(activeCancellationTokens, streams[c],
                                onChunk(streams[c].gen, streams[c].token,
                                        Head(streams[c].body), FALSE),
                                Tail(streams[c].body)))
    /\ UNCHANGED <<cancelRequests, tokenVars, decoderVars, serverVars>>

\* the response body ends
ClientEnd ==
  \E c \in StreamIds :
    /\ streams[c].pc = "stream"
    /\ streams[c].gen.pc = "awaitChunk"
    /\ ~streams[c].aborted
    /\ streams[c].body = <<>>
    /\ ClientStep(c, streamStep(activeCancellationTokens, streams[c],
                                onEnd(streams[c].gen, streams[c].token, FALSE), <<>>))
    /\ UNCHANGED <<cancelRequests, tokenVars, decoderVars, serverVars>>

\* the response body fails: the connection is lost, or the request was aborted
ClientStreamError ==
  \E c \in StreamIds :
    /\ streams[c].pc = "stream"
    /\ streams[c].gen.pc = "awaitChunk"
    /\ ClientStep(c, streamStep(activeCancellationTokens, streams[c],
                                onStreamError(streams[c].gen, streams[c].token),
                                streams[c].body))
    /\ UNCHANGED <<cancelRequests, tokenVars, decoderVars, serverVars>>

\* the holder of the token of a call in flight calls token.cancel()
ClientCancel ==
  \E c \in StreamIds :
    /\ streams[c].pc \in {"awaitPost", "stream"}
    /\ streams[c].tokenArg \in {"created", "own", "foreign"}
    /\ ~streams[c].token.isCancelled
    /\ LET k == cancel(streams[c].token, {})
       IN streams' = [streams EXCEPT ![c] =
                        runCallbacks([streams[c] EXCEPT !.token = k.tok], k.ran)]
    /\ UNCHANGED <<activeCancellationTokens, cancelRequests, tokenVars, decoderVars,
                   serverVars>>

\* the POST /api/mcp/notification a cancellation callback sent settles (lines
\* 229-241): after a success the token found under the request id is cancelled and
\* its entry deleted; a failure is logged and rethrown to .catch(console.error)
ClientNotificationSettles ==
  \E c \in StreamIds, ok \in BOOLEAN :
    /\ streams[c].notesInFlight > 0
    /\ LET s == [streams EXCEPT ![c].notesInFlight = @ - 1]
           k == IF ok
                THEN afterNotification(activeCancellationTokens, s,
                                       streams[c].token.requestId)
                ELSE [streams |-> s, map |-> activeCancellationTokens]
       IN /\ streams' = k.streams
          /\ activeCancellationTokens' = k.map
    /\ UNCHANGED <<cancelRequests, tokenVars, decoderVars, serverVars>>

\* the request ids a caller can name and the client knows
RequestIds == DOMAIN activeCancellationTokens

\* a caller calls cancelRequest(requestId) (lines 257-259), which runs
\* sendCancelledNotification up to the await of its POST (lines 217-229)
ClientCancelRequest ==
  \E requestId \in RequestIds :
    /\ Len(cancelRequests) < MaxCancelRequests
    /\ cancelRequests' =
         Append(cancelRequests,
                [requestId |-> requestId, state |-> "awaitPost", events |-> 0,
                 call |-> IF requestId \in DOMAIN activeCancellationTokens
                          THEN activeCancellationTokens[requestId] ELSE 0])
    /\ UNCHANGED <<streams, activeCancellationTokens, tokenVars, decoderVars, serverVars>>

\* the POST of a cancelRequest settles: after a success the token found under the
\* request id is cancelled and its entry deleted, and cancelRequest resolves; after a
\* failure the catch logs and rethrows (lines 238-241), and cancelRequest rejects
ClientCancelRequestSettles ==
  \E i \in DOMAIN cancelRequests, ok \in BOOLEAN :
    /\ cancelRequests[i].state = "awaitPost"
    /\ LET k == IF ok
                THEN afterNotification(activeCancellationTokens, streams,
                                       cancelRequests[i].requestId)
                ELSE [streams |-> streams, map |-> activeCancellationTokens]
       IN /\ streams' = k.streams
          /\ activeCancellationTokens' = k.map
    /\ cancelRequests' =
         [cancelRequests EXCEPT
            ![i].state = IF ok THEN "resolved" ELSE "rejected",
            ![i].events = IF cancelRequests[i].call = 0 THEN 0
                          ELSE streams[cancelRequests[i].call].events]
    /\ UNCHANGED <<tokenVars, decoderVars, serverVars>>

\* the value of each group of variables in the specifications that do not drive it
TokenIdle ==
  /\ token = MCPCancellationToken("")
  /\ throwers = {}
  /\ trace = <<>>
DecoderIdle ==
  /\ content = <<>>
  /\ stream = <<>>
  /\ gen = NewGenerator
  /\ dtoken = MCPCancellationToken("")
  /\ yielded = <<>>
  /\ quotesSource = FALSE
  /\ extCancelled = FALSE
  /\ cuts = {}
ServerIdle ==
  /\ activeRequests = <<>>
  /\ calls = [c \in CallIds |-> NoCall]
  /\ last = NoNotification
  /\ process = Running
ClientIdle ==
  /\ streams = [c \in 1..MaxStreams |-> NoStream]
  /\ activeCancellationTokens = <<>>
  /\ cancelRequests = <<>>

(***************************************************************************)
(* Specifications                                                          *)
(***************************************************************************)
InitToken ==
  /\ token = MCPCancellationToken("")
  /\ throwers \in SUBSET CallbackIds
  /\ trace = <<>>
  /\ DecoderIdle /\ ServerIdle /\ ClientIdle

NextToken == TokenCancel \/ TokenOnCancellation

SpecToken == InitToken /\ [][NextToken]_vars

InitDecoder ==
  /\ content \in Contents
  /\ stream = content
  /\ gen = NewGenerator
  /\ dtoken \in {MCPCancellationToken(""), MCPCancellationToken("req_1")}
  /\ yielded = <<>>
  /\ quotesSource \in BOOLEAN
  /\ extCancelled = FALSE
  /\ cuts = {}
  /\ TokenIdle /\ ServerIdle /\ ClientIdle

NextDecoder ==
  \/ DecoderNext
  \/ DecoderChunk
  \/ DecoderEnd
  \/ DecoderStreamError
  \/ DecoderCancel

SpecDecoder == InitDecoder /\ [][NextDecoder]_vars

InitServer ==
  /\ activeRequests = <<>>
  /\ calls = [c \in CallIds |-> NoCall]
  /\ last = NoNotification
  /\ process = Running
  /\ TokenIdle /\ DecoderIdle /\ ClientIdle

NextServer ==
  \/ CallTool
  \/ PostResponds
  \/ PostFails
  \/ StreamChunk
  \/ StreamEnd
  \/ StreamError
  \/ BackendReplies
  \/ CancelledNotification
  \/ TransportClose
  \/ Signal

SpecServer == InitServer /\ [][NextServer]_vars

InitClient ==
  /\ streams = [c \in 1..MaxStreams |-> NoStream]
  /\ activeCancellationTokens = <<>>
  /\ cancelRequests = <<>>
  /\ TokenIdle /\ DecoderIdle /\ ServerIdle

NextClient ==
  \/ ClientGenerateAnalysis
  \/ ClientPostResponds
  \/ ClientPostFails
  \/ ClientIterate
  \/ ClientChunk
  \/ ClientEnd
  \/ ClientStreamError
  \/ ClientCancel
  \/ ClientNotificationSettles
  \/ ClientCancelRequest
  \/ ClientCancelRequestSettles

SpecClient == InitClient /\ [][NextClient]_vars

\* MaxConcurrent calls of generateAnalysis on one client
InitConcurrent ==
  /\ streams = [c \in 1..MaxConcurrent |-> NoStream]
  /\ activeCancellationTokens = <<>>
  /\ cancelRequests = <<>>
  /\ TokenIdle /\ DecoderIdle /\ ServerIdle

SpecConcurrent == InitConcurrent /\ [][NextClient]_vars

(***************************************************************************)
(* Claims about the Cancellation Token (checked under SpecToken)           *)
(***************************************************************************)
\* C8: whatever number of cancel() calls is made, every callback registered before
\* the cancellation has been invoked exactly once in total, and the second and
\* later cancel() calls invoke nothing.
C8_CancelRunsEachCallbackOnce ==
  /\ CancelCallsAt # {} => \A cb \in RegisteredBeforeCancel : Invoked(cb) = 1
  /\ \A i \in CancelCallsAt : (\E k \in CancelCallsAt : k < i) => trace[i].ran = <<>>

\* a token with two callbacks registered before cancellation has been cancelled twice
C8_Witness ==
  /\ Cardinality(CancelCallsAt) >= 2
  /\ Cardinality(RegisteredBeforeCancel) >= 2

\* C9: a callback passed to onCancellation on a cancelled token is invoked inside that
\* call, exactly once in total, and is never stored in the callback list, whatever
\* cancel() calls follow.
C9_LateCallbackRunsOnceSynchronously ==
  \A i \in RegistrationsAt :
    (\E k \in CancelCallsAt : k < i) =>
      /\ trace[i].ran = <<trace[i].cb>>
      /\ Invoked(trace[i].cb) = 1
      /\ \A j \in DOMAIN token.callbacks : token.callbacks[j] # trace[i].cb

\* a callback was registered on a cancelled token and cancel() was called again later
C9_Witness ==
  \E i \in RegistrationsAt :
    /\ \E k \in CancelCallsAt : k < i
    /\ \E k \in CancelCallsAt : k > i

\* the callbacks the onCancellation() calls among the first n calls passed, in call order
RECURSIVE RegisteredUpTo(_)
RegisteredUpTo(n) ==
  IF n = 0 THEN <<>>
  ELSE RegisteredUpTo(n - 1)
         \o (IF trace[n].op = "onCancellation" THEN <<trace[n].cb>> ELSE <<>>)

\* the first cancel() call of the trace, if any
FirstCancelAt == {i \in CancelCallsAt : \A k \in CancelCallsAt : i <= k}

\* C22: the cancel() call that cancels the token invokes the callbacks registered
\* before it in the order of their registration, each once, and the callback list of
\* a cancelled token is empty.
C22_CallbacksRunInRegistrationOrder ==
  /\ \A i \in FirstCancelAt : trace[i].ran = RegisteredUpTo(i - 1)
  /\ token.isCancelled => token.callbacks = <<>>

\* cancel() was called on a token with all MaxCallbacks callbacks registered
C22_Witness ==
  \E i \in FirstCancelAt : Len(trace[i].ran) = MaxCallbacks /\ token.callbacks = <<>>

\* C23: whichever callbacks throw, the cancel() call that cancels the token invokes
\* every callback registered before it, those after a throwing one included, logs one
\* error for each callback that threw, lets no error out to its caller, and leaves
\* the token cancelled with an empty callback list.
C23_ThrowingCallbackIsContained ==
  \A i \in FirstCancelAt :
    /\ \A j \in RegistrationsAt : j < i => CountIn(trace[i].ran, trace[j].cb) = 1
    /\ ~trace[i].threw
    /\ trace[i].logged = Cardinality({j \in RegistrationsAt : j < i /\ trace[j].cb \in throwers})
    /\ token.isCancelled /\ token.callbacks = <<>>

\* the first callback of three threw during cancel(), and so did a later one, with a
\* callback that does not throw registered between them
C23_Witness ==
  \E i \in FirstCancelAt :
    /\ Len(trace[i].ran) = 3
    /\ trace[i].ran[1] \in throwers
    /\ trace[i].ran[2] \notin throwers
    /\ trace[i].ran[3] \in throwers

(***************************************************************************)
(* Claims about the Stream Decoder (checked under SpecDecoder)             *)
(***************************************************************************)
\* C1: once the token is cancelled, no step of the decoder yields an event: not for
\* the lines left of the chunk in progress, nor for a later chunk, nor for the
\* remainder of the buffer.
C1_NoEventAfterCancellation == [][dtoken.isCancelled => yielded' = yielded]_vars

\* the token was cancelled after a first event, with bytes of the body still to come,
\* and the decoder has stopped with the cancellation error
C1_Witness ==
  /\ extCancelled
  /\ Len(yielded) >= 1
  /\ stream # <<>>
  /\ gen.pc = "thrown" /\ gen.error = ErrCancelled

\* C2: a decoder that finishes while its token is cancelled finishes by raising the
\* cancellation error; it never returns normally with a cancelled token.
C2_CancelledDecoderRaises ==
  [][(~Finished(gen) /\ Finished(gen') /\ dtoken.isCancelled)
       => (gen'.pc = "thrown" /\ gen'.error = ErrCancelled)]_vars

\* C10: when nobody cancels the token and the stream does not fail, the events
\* received are, at every moment, a prefix of the events of the same body read as one
\* chunk, and at the end the same events with the same way of ending, wherever the
\* chunk boundaries fall.
C10_ChunkBoundaryInvariance ==
  LET one == OnePass(content, MCPCancellationToken(dtoken.requestId), quotesSource) IN
  (~extCancelled /\ gen.error # ErrStream) =>
    /\ Len(yielded) <= Len(one.events)
    /\ yielded = SubSeq(one.events, 1, Len(yielded))
    /\ Finished(gen) =>
         /\ yielded = one.events
         /\ gen.pc = one.pc
         /\ gen.error = one.error

\* a body whose chunks were cut inside a character, inside the prefix and inside an
\* object has been read to its end and gave its events
C10_Witness ==
  /\ ~extCancelled
  /\ gen.pc = "returned"
  /\ cuts = {"char", "prefix", "json"}
  /\ Len(yielded) = 2
  /\ \E i \in DOMAIN yielded : yielded[i].payload = <<"E9">>

\* the events of the well-formed lines of a body, in order: what is left of the body
\* when the lines that are blank or not JSON are taken out
RECURSIVE EventsOfLines(_)
EventsOfLines(lines) ==
  IF lines = <<>> THEN <<>>
  ELSE LET parsed == JSONparse(stripSsePrefix(Head(lines)))
       IN (IF parsed.ok THEN <<parsed.data>> ELSE <<>>) \o EventsOfLines(Tail(lines))
WellFormedEvents(bytes) == EventsOfLines(split(decode(<<>>, bytes).text))

\* C11: a line that is not JSON never ends the decoder and gives no event: with no
\* cancellation (by the token or by a cancelled event of the server) and no failure of
\* the stream, the decoder never raises the error of a parse, and a decoder that has
\* finished has returned normally after the events of exactly the well-formed lines.
C11_MalformedLineIsSkipped ==
  (~extCancelled /\ gen.error # ErrStream /\ \A i \in DOMAIN content : content[i] # "C") =>
    /\ gen.pc # "thrown"
    /\ Finished(gen) => yielded = WellFormedEvents(content)

\* C12: a message whose member has the bare literal NaN as its value is read with
\* null in its place: a body holding the line {"type":"progress","progress":NaN},
\* read to its end without cancellation, gave a progress event whose progress is null.
C12_NaNBecomesNull ==
  LET lines == split(decode(<<>>, content).text) IN
  (/\ gen.pc = "returned"
   /\ ~extCancelled
   /\ \E i \in DOMAIN lines : trim(stripSsePrefix(lines[i])) = <<"{", "P", "N", "}">>)
    => \E i \in DOMAIN yielded : yielded[i] = [type |-> "progress", payload |-> <<"null">>]

\* the event is one that ends a stream: a result event or an error event
Terminal(event) == event.type \in {"result", "error"}

\* C24: once the decoder has yielded a result event or an error event, no step yields
\* another event: the lines that follow the terminal event are not processed.
C24_NoEventAfterTerminalEvent ==
  [][(\E i \in DOMAIN yielded : Terminal(yielded[i])) => yielded' = yielded]_vars

\* C25: with a token nobody cancels and no cancelled event in the body, the events
\* yielded are at every moment the first ones of the events of the well-formed lines
\* of the body, in the order of the lines, and once the decoder has finished on a
\* stream that did not fail they are all of them: none is reordered, repeated or lost.
C25_EventsAreTheWellFormedLines ==
  LET expected == WellFormedEvents(content) IN
  (~extCancelled /\ \A i \in DOMAIN content : content[i] # "C") =>
    /\ Len(yielded) <= Len(expected)
    /\ yielded = SubSeq(expected, 1, Len(yielded))
    /\ (Finished(gen) /\ gen.error # ErrStream) => yielded = expected

\* the lines of a body put together again, a newline between two lines
RECURSIVE join(_)
join(lines) ==
  IF Len(lines) = 1 THEN Head(lines) ELSE Head(lines) \o <<LF>> \o join(Tail(lines))

\* the same line without the "data: " it begins with, if it begins with it
WithoutPrefix(line) ==
  IF Len(line) >= 6 /\ SubSeq(line, 1, 6) = <<"d", "a", "t", "a", ":", SP>>
  THEN SubSeq(line, 7, Len(line)) ELSE line

\* the body with every line, the unterminated last one included, without its prefix
Unprefixed(bytes) ==
  LET lines == split(bytes) IN join([i \in DOMAIN lines |-> WithoutPrefix(lines[i])])

\* the line is the prefix followed by blanks only, or blank
PrefixOnly(line) == \A i \in DOMAIN WithoutPrefix(line) : Blank(WithoutPrefix(line)[i])

\* a body read to its end with no cancellation by the token and no failure of the stream
ReadToEnd == Finished(gen) /\ ~extCancelled /\ gen.error # ErrStream

\* C26 as stated: a body read to its end gave the events, and ended the way, of the
\* same body with the prefix taken off every line that begins with it, whatever the
\* line holds after the prefix.
C26_PrefixedLineSameAsBare ==
  LET bare == OnePass(Unprefixed(content), MCPCancellationToken(dtoken.requestId),
                      quotesSource) IN
  ReadToEnd => (yielded = bare.events /\ gen.pc = bare.pc /\ gen.error = bare.error)

\* C26: for a body none of whose lines holds the prefix twice in a row at its start, the
\* body read to its end gave the events, and ended the way, of the same body with the
\* prefix taken off every line that begins with it, newline-terminated or last
\* unterminated; and a body whose lines are all blank or the prefix followed by
\* blanks gave no event.
C26_PrefixedLineSameAsBareOnce ==
  LET lines == split(content)
      bare  == OnePass(Unprefixed(content), MCPCancellationToken(dtoken.requestId),
                       quotesSource) IN
  /\ (ReadToEnd /\ \A i \in DOMAIN lines : WithoutPrefix(WithoutPrefix(lines[i]))
                                               = WithoutPrefix(lines[i]))
       => (yielded = bare.events /\ gen.pc = bare.pc /\ gen.error = bare.error)
  /\ (\A i \in DOMAIN lines : PrefixOnly(lines[i])) => yielded = <<>>

\* a body of a prefixed line that gave its event and of an unterminated last line that
\* is the prefix alone has been read to its end, in more than one chunk
C26_Witness ==
  /\ gen.pc = "returned" /\ ~extCancelled
  /\ content = <<"d", "a", "t", "a", ":", SP, "{", "R", "C3", "A9", "}", LF,
                  "d", "a", "t", "a", ":", SP>>
  /\ yielded = <<[type |-> "result", payload |-> <<"E9">>]>>
  /\ "prefix" \in cuts

(***************************************************************************)
(* Claims about the Tool Dispatcher (checked under SpecServer)             *)
(***************************************************************************)
Done(c) == calls[c].pc = "done"
InFlight(c) == calls[c].pc \in {"awaitPost", "awaitChunk", "awaitBackend"}

\* C3: a generate_analysis call whose stream delivered a cancelled event ends with
\* CancelledError raised to the caller, never with a tool result.
C3_ServerCancelEndsCancelled ==
  \A c \in CallIds :
    (Done(c) /\ calls[c].cancelledSent) => calls[c].outcome = "CancelledError"

\* C4: a call that returns a tool result without isError has a token that was never
\* cancelled during the call.
C4_ResultOnlyIfNeverCancelled ==
  \A c \in CallIds : calls[c].outcome = "result" => ~calls[c].token.isCancelled

\* C5: a call that ends by an error while its token is cancelled ends with
\* CancelledError and the message "Request was cancelled", never with an isError tool
\* result or the error itself.
C5_CancellationTakesPrecedence ==
  \A c \in CallIds :
    (Done(c) /\ calls[c].token.isCancelled /\ calls[c].outcome # "result") =>
      /\ calls[c].outcome = "CancelledError"
      /\ calls[c].message = <<ErrCancelled>>

\* a GET handler and a generate_analysis call have both caught the error of their
\* backend operation with a cancelled token
C5_Witness ==
  \E c, d \in CallIds :
    /\ calls[c].handler = "handleGet" /\ calls[c].outcome = "CancelledError"
    /\ calls[d].handler = "handleGenerateAnalysis" /\ calls[d].outcome = "CancelledError"
    /\ calls[d].gen.pc = "thrown"

\* C6: once the call-tool handler of a call has finished, activeRequests holds no
\* entry for its request id, and a notification that names the id afterwards changes
\* no token and no entry.
C6_NoEntryAfterHandler ==
  /\ [](\A c \in CallIds : Done(c) => c \notin DOMAIN activeRequests)
  /\ [][(/\ last'.kind = "notification"
         /\ last'.requestId \in CallIds
         /\ Done(last'.requestId))
          => (calls' = calls /\ activeRequests' = activeRequests)]_vars

\* a call that ended by an unknown tool and a call that ended by a failure of its
\* backend; a notification naming the id of the second arrived after its end
C6_Witness ==
  \E c, d \in CallIds :
    /\ calls[c].outcome = "Error"
    /\ calls[d].outcome = "isError"
    /\ last = [kind |-> "notification", requestId |-> d, hit |-> FALSE]

\* C7: a notification whose request id is in activeRequests cancels the token of that
\* call, removes that entry and leaves every other call and entry as it was; a
\* notification without request id or with one not in activeRequests changes nothing.
C7_NotificationFrame ==
  [][last'.kind = "notification" =>
       LET rid == last'.requestId IN
       IF rid \in DOMAIN activeRequests
       THEN /\ DOMAIN activeRequests' = (DOMAIN activeRequests) \ {rid}
            /\ \A r \in DOMAIN activeRequests' : activeRequests'[r] = activeRequests[r]
            /\ calls'[rid].token.isCancelled
            /\ calls'[rid].pc = calls[rid].pc
            /\ \A d \in CallIds \ {rid} : calls'[d] = calls[d]
       ELSE calls' = calls /\ activeRequests' = activeRequests]_vars

\* with two calls in flight, a notification has cancelled the token of one and removed
\* its entry; the other is still registered with its token not cancelled
C7_Witness ==
  \E c, d \in CallIds :
    /\ c # d
    /\ last = [kind |-> "notification", requestId |-> c, hit |-> TRUE]
    /\ InFlight(c) /\ calls[c].token.isCancelled /\ c \notin DOMAIN activeRequests
    /\ InFlight(d) /\ ~calls[d].token.isCancelled /\ d \in DOMAIN activeRequests

\* C14: a call whose backend request was made and failed, with its token not
\* cancelled, ends with a tool result marked isError that carries the message of the
\* error, never with a thrown error; and the handler takes the next call.
C14_BackendFailureIsToolError ==
  /\ \A c \in CallIds :
       (/\ Done(c) /\ calls[c].requests > 0
        /\ ~calls[c].token.isCancelled /\ calls[c].outcome # "result") =>
         /\ calls[c].outcome = "isError"
         /\ Len(calls[c].message) = 1
         /\ calls[c].message[1] \in
              {ErrHttp, ErrTimeout, ErrSchema, ErrStream, ErrCancelledByServer}
  /\ (/\ \E c \in CallIds : Done(c) /\ calls[c].outcome = "isError"
      /\ \E d \in CallIds : calls[d].pc = "none"
      /\ process.state = "running" /\ process.connected) => ENABLED CallTool

\* a call ended with isError for a failed request, its token not cancelled, and the
\* handler is ready for the call after it
C14_Witness ==
  \E c \in CallIds :
    /\ calls[c].outcome = "isError" /\ calls[c].message = <<ErrHttp>>
    /\ ~calls[c].token.isCancelled
    /\ c + 1 \in CallIds /\ calls[c + 1].pc = "none"
    /\ ENABLED CallTool

\* C15: a call naming a tool the switch does not know ends with the error
\* "Unknown tool: <name>" thrown to the caller, with no request made to the backend
\* and no entry left in activeRequests.
C15_UnknownToolRejected ==
  \A c \in CallIds :
    (Done(c) /\ calls[c].handler = "") =>
      /\ calls[c].outcome = "Error"
      /\ Len(calls[c].message) = 2
      /\ calls[c].message[1] = "Unknown tool: "
      /\ calls[c].message[2] \in ToolNames /\ toolHandler(calls[c].message[2]) = ""
      /\ calls[c].requests = 0
      /\ c \notin DOMAIN activeRequests

\* a call naming no_such_tool was rejected while another call was in flight, which
\* kept its entry
C15_Witness ==
  \E c, d \in CallIds :
    /\ Done(c) /\ calls[c].message = <<"Unknown tool: ", "no_such_tool">>
    /\ InFlight(d) /\ d \in DOMAIN activeRequests

\* C16: every tool of the tool surface is listed and dispatched: a name the call-tool
\* handler rejects as unknown is neither a tool of the surface nor a listed tool.
C16_SurfaceIsDispatched ==
  \A c \in CallIds :
    (Done(c) /\ calls[c].handler = "") =>
      /\ calls[c].message[2] \notin ToolSurface
      /\ calls[c].message[2] \notin ListedTools

\* C18: a call whose backend request ended by the timeout of the client ends with
\* CancelledError, as a cancelled call does.
C18_TimeoutIsCancellation ==
  \A c \in CallIds : (Done(c) /\ calls[c].timedOut) => calls[c].outcome = "CancelledError"

\* C19: the step by which the transport to the caller closes changes no call, no token
\* and no entry of activeRequests.
C19_DisconnectChangesNothing ==
  [][process'.connected # process.connected =>
       (calls' = calls /\ activeRequests' = activeRequests
        /\ process'.state = process.state)]_vars

\* the caller is gone and the process runs on, with a call in flight whose entry is
\* kept and whose token is not cancelled
C19_Witness ==
  /\ ~process.connected /\ process.state = "running"
  /\ \E c \in CallIds :
       /\ InFlight(c) /\ c \in DOMAIN activeRequests /\ ~calls[c].token.isCancelled
       /\ calls[c].handler = "handleGenerateAnalysis" /\ ~calls[c].aborted

\* C20: the step by which the process exits on a signal leaves every token that was in
\* activeRequests cancelled, with its callbacks run and its list empty, and
\* activeRequests empty; the exit status is 0.
C20_SignalCancelsEveryToken ==
  [][(process.state = "running" /\ process'.state = "exited") =>
       /\ process'.status = 0
       /\ activeRequests' = <<>>
       /\ \A r \in DOMAIN activeRequests :
            /\ calls'[activeRequests[r]].token.isCancelled
            /\ calls'[activeRequests[r]].token.callbacks = <<>>
            /\ (calls[activeRequests[r]].pc \in {"awaitPost", "awaitChunk"}
                  => calls'[activeRequests[r]].aborted)]_vars

\* the process has exited on a signal with two calls in flight, a generate_analysis
\* and a GET: both tokens are cancelled and the POST is aborted
C20_Witness ==
  /\ process.state = "exited" /\ last.kind = "signal"
  /\ \E c, d \in CallIds :
       /\ calls[c].pc = "awaitChunk" /\ calls[c].token.isCancelled /\ calls[c].aborted
       /\ calls[d].pc = "awaitBackend" /\ calls[d].token.isCancelled

(***************************************************************************)
(* Claims about the Backend Client (checked under SpecClient)              *)
(***************************************************************************)
\* C13: a generateAnalysis call whose ticker list is empty is rejected with the
\* validation error, and no POST is made for it.
C13_EmptyTickersRejected ==
  \A c \in StreamIds :
    streams[c].tickers = "empty" =>
      /\ streams[c].pc = "done"
      /\ streams[c].error = ErrValidation
      /\ streams[c].posts = 0

\* C17: whenever the token of a call whose stream is being read is cancelled, a
\* notifications/cancelled POST has been sent for it, whoever made the token.
C17_CancelMidStreamNotifies ==
  \A c \in StreamIds :
    (streams[c].token.isCancelled /\ streams[c].gen.pc # "start") =>
      streams[c].notified >= 1

\* C21: once a cancelRequest for a request id that was in activeCancellationTokens
\* has settled, resolved or rejected, the token that was under the id is cancelled,
\* the id is no longer in activeCancellationTokens, and the call of the token has
\* yielded no event since.
C21_CancelRequestCancelsAndRemoves ==
  \A i \in DOMAIN cancelRequests :
    (cancelRequests[i].state \in {"resolved", "rejected"} /\ cancelRequests[i].call # 0) =>
      /\ streams[cancelRequests[i].call].token.isCancelled
      /\ cancelRequests[i].requestId \notin DOMAIN activeCancellationTokens
      /\ streams[cancelRequests[i].call].events = cancelRequests[i].events

\* C27: a call that has bound its token has its POST aborted whenever the token is
\* cancelled; and a call made with a valid request and a token cancelled beforehand
\* never returns a generator and yields no event: it awaits the aborted POST or has
\* failed with "Request was cancelled".
C27_CancelledTokenMeansAborted ==
  \A c \in StreamIds :
    /\ (streams[c].posts > 0 /\ streams[c].token.isCancelled) => streams[c].aborted
    /\ (streams[c].posts > 0 /\ streams[c].preCancelled) =>
         /\ streams[c].pc \in {"awaitPost", "done"}
         /\ streams[c].gen.pc = "start"
         /\ streams[c].events = 0
         /\ (streams[c].pc = "done" => streams[c].error = ErrCancelled)

\* a call made with a token of the client that was cancelled beforehand has failed with
\* the cancellation error
C27_Witness ==
  \E c \in StreamIds :
    /\ streams[c].preCancelled /\ streams[c].token.requestId # ""
    /\ streams[c].pc = "done" /\ streams[c].error = ErrCancelled
    /\ streams[c].aborted

\* the notifications/cancelled POSTs sent for a request id: those of the cancelRequest
\* calls that named it and those of the callbacks of the tokens that hold it
RECURSIVE NotifiedUpTo(_, _)
NotifiedUpTo(n, requestId) ==
  IF n = 0 THEN 0
  ELSE NotifiedUpTo(n - 1, requestId)
         + (IF streams[n].token.requestId = requestId THEN streams[n].notified ELSE 0)
NotificationsFor(requestId) ==
  Cardinality({i \in DOMAIN cancelRequests : cancelRequests[i].requestId = requestId})
    + NotifiedUpTo(Len(streams), requestId)

\* C28: for every request id, at most one notifications/cancelled POST has been sent.
C28_AtMostOneNotification ==
  \A c \in StreamIds :
    streams[c].token.requestId # "" => NotificationsFor(streams[c].token.requestId) <= 1

\* C29: once a call has terminated, activeCancellationTokens holds no entry for the
\* token of that call.
C29_EntryRemovedAfterCall ==
  \A c \in StreamIds :
    streams[c].pc = "done" =>
      \A r \in DOMAIN activeCancellationTokens : activeCancellationTokens[r] # c

(***************************************************************************)
(* Claims about concurrent calls (checked under SpecConcurrent)            *)
(***************************************************************************)
\* call c is in flight / activeCancellationTokens holds the token of call c
InFlightCall(c) == streams[c].pc \in {"awaitPost", "stream"}
HasEntry(c) ==
  /\ streams[c].token.requestId \in DOMAIN activeCancellationTokens
  /\ activeCancellationTokens[streams[c].token.requestId] = c

\* C30: a call in flight whose token came from createCancellationToken and is not
\* cancelled has its entry in activeCancellationTokens, and the step by which another
\* call terminates leaves the entry of a call in flight in place.
C30_OtherCallsKeepTheirEntry ==
  /\ [](\A c \in StreamIds :
          (/\ InFlightCall(c)
           /\ streams[c].tokenArg \in {"undefined", "created", "own"}
           /\ ~streams[c].token.isCancelled) => HasEntry(c))
  /\ [][\A c, d \in StreamIds :
          (/\ c # d
           /\ InFlightCall(d) /\ streams'[d].pc = "done"
           /\ InFlightCall(c) /\ streams'[c].pc = streams[c].pc
           /\ HasEntry(c)) => HasEntry(c)']_vars
====
